---- MODULE Spec2Model ----
(***************************************************************************)
(* Password validators of metashare/accounts/django_password_validators.py *)
(* : the registry (get_password_validators, the memoized default set), the *)
(* orchestrator (validate_password, password_changed), the help-text       *)
(* aggregator and the nine validator strategies.                           *)
(*                                                                         *)
(* A text is a sequence of one-character strings, so that lower(), strip(),*)
(* isdigit(), re.split and SequenceMatcher act on characters.              *)
(***************************************************************************)
EXTENDS Integers, Sequences, FiniteSets, TLC

VARIABLES
    settings,    \* settings.AUTH_PASSWORD_VALIDATORS: unset, or a configuration
    cache,       \* the lru_cache of get_default_password_validators
    builds,      \* how many times the body of the accessor has run
    accessed,    \* the accessor has been called since the cache was last empty
    clears,      \* how many times cache_clear() has been called
    config,      \* the configuration given to get_password_validators
    validators,  \* the validator list it returned, once it has
    last,        \* the last call of the public API: its arguments and effects
    password,    \* argument of a single validator's validate()
    user,        \* argument of a single validator's validate()
    validator,   \* the validator instance validate() is called on
    outcome      \* what that validate() did

vars == <<settings, cache, builds, accessed, clears, config, validators, last,
          password, user, validator, outcome>>

(***************************************************************************)
(* Bounds of the model.                                                    *)
(***************************************************************************)
MaxPwLen == 2
MaxValueLen == 3
MaxRepLen == 5
MaxRepeatsBound == 3
MaxConfigLen == 3
MaxBuilds == 3
MaxClears == 1

(***************************************************************************)
(* Characters and the str methods the validators use.                      *)
(***************************************************************************)
Digits == {"1", "2"}
Uppers == {"A", "B"}
Lowers == {"a", "b"}
Punctuation == {".", "_", "'"}
Whitespace == {" "}
Alphabet == Digits \cup Uppers \cup Lowers \cup Punctuation \cup Whitespace

IsDigit(c) == c \in Digits
IsUpper(c) == c \in Uppers
IsLower(c) == c \in Lowers
IsWordChar(c) == c \in Digits \cup Uppers \cup Lowers \cup {"_"}

LowerChar(c) == CASE c = "A" -> "a" [] c = "B" -> "b" [] OTHER -> c

Lower(s) == [i \in 1..Len(s) |-> LowerChar(s[i])]

RECURSIVE LStrip(_)
LStrip(s) == IF s # <<>> /\ Head(s) \in Whitespace THEN LStrip(Tail(s)) ELSE s

RECURSIVE RStrip(_)
RStrip(s) ==
    IF s # <<>> /\ s[Len(s)] \in Whitespace
    THEN RStrip(SubSeq(s, 1, Len(s) - 1))
    ELSE s

Strip(s) == RStrip(LStrip(s))

StrIsDigit(s) == s # <<>> /\ \A i \in 1..Len(s) : IsDigit(s[i])

Repeat(c, n) == [i \in 1..n |-> c]

Contains(s, sub) ==
    \E i \in 0..(Len(s) - Len(sub)) : SubSeq(s, i + 1, i + Len(sub)) = sub

Strings(S, n) == UNION {[1..k -> S] : k \in 0..n}

ToDigits(n) == ToString(n)

(***************************************************************************)
(* ValidationError(message, code, params) and the two outcomes of a        *)
(* validator's validate().                                                 *)
(***************************************************************************)
Passes == [kind |-> "passes"]

ValidationError(message, code, params) ==
    [kind |-> "ValidationError", message |-> message, code |-> code,
     params |-> params]

NoParams == <<>>

(***************************************************************************)
(* Values of user attributes and users. getattr(user, name, None) gives    *)
(* None for an attribute the user does not have.                           *)
(***************************************************************************)
NoneValue == [kind |-> "None", s |-> <<>>]
IntValue == [kind |-> "int", s |-> <<>>]
Str(s) == [kind |-> "str", s |-> s]

NoUser == [kind |-> "None"]

GetAttr(u, name) ==
    IF name \in DOMAIN u \ {"kind"} THEN u[name] ELSE NoneValue

\* user._meta.get_field(name).verbose_name: the attributes a user has here
\* are fields of its model.
VerboseName(name) == name

(***************************************************************************)
(* MinimumLengthValidator                                                  *)
(***************************************************************************)
DefaultMinLength == 8

MinimumLengthValidator(min_length) ==
    [klass |-> "MinimumLengthValidator", attrs |-> [min_length |-> min_length]]

MinimumLength_validate(self, pw, u) ==
    IF Len(pw) < self.attrs.min_length
    THEN ValidationError(
            IF self.attrs.min_length = 1
            THEN "This password is too short. It must contain at least %(min_length)d character."
            ELSE "This password is too short. It must contain at least %(min_length)d characters.",
            "password_too_short",
            <<<<"min_length", self.attrs.min_length>>>>)
    ELSE Passes

MinimumLength_get_help_text(self) ==
    <<"Your password must contain at least ", ToDigits(self.attrs.min_length),
      IF self.attrs.min_length = 1 THEN " character." ELSE " characters.">>

(***************************************************************************)
(* UserAttributeSimilarityValidator                                        *)
(***************************************************************************)
\* ('username') is a parenthesised str, not a tuple: iterating it in
\* validate() yields its characters, one attribute name each.
DEFAULT_USER_ATTRIBUTES == <<"u", "s", "e", "r", "n", "a", "m", "e">>

\* A similarity bound or ratio is a fraction num/den.
Frac(n, d) == [num |-> n, den |-> d]
FracGreater(x, y) == x.num * y.den > y.num * x.den
FracIsOne(x) == x.num = x.den
FracIsZero(x) == x.num = 0

DefaultMaxSimilarity == Frac(1, 2)

UserAttributeSimilarityValidator(user_attributes, max_similarity) ==
    [klass |-> "UserAttributeSimilarityValidator",
     attrs |-> [user_attributes |-> user_attributes,
                max_similarity |-> max_similarity]]

\* re.split('\W+', value): the pieces between maximal runs of non-word
\* characters; a run at either end leaves an empty piece there.
RECURSIVE ReSplitFrom(_, _, _, _, _)
ReSplitFrom(s, i, cur, inSep, acc) ==
    IF i > Len(s) THEN Append(acc, cur)
    ELSE IF IsWordChar(s[i])
         THEN ReSplitFrom(s, i + 1, Append(cur, s[i]), FALSE, acc)
         ELSE IF inSep
              THEN ReSplitFrom(s, i + 1, cur, TRUE, acc)
              ELSE ReSplitFrom(s, i + 1, <<>>, TRUE, Append(acc, cur))

ReSplit(s) == ReSplitFrom(s, 1, <<>>, FALSE, <<>>)

CountOf(c, s) == Cardinality({i \in 1..Len(s) : s[i] = c})

\* A quick_ratio that never uses up the occurrences in b.
RECURSIVE QuickMatchesUnlimited(_, _, _)
QuickMatchesUnlimited(a, i, avail) ==
    IF i > Len(a) THEN 0
    ELSE (IF avail[a[i]] > 0 THEN 1 ELSE 0) + QuickMatchesUnlimited(a, i + 1, avail)

\* difflib.SequenceMatcher.quick_ratio: each element of a matches while b
\* still has an unused occurrence of it.
RECURSIVE QuickMatches(_, _, _)
QuickMatches(a, i, avail) ==
    IF i > Len(a) THEN 0
    ELSE LET numb == avail[a[i]]
         IN  (IF numb > 0 THEN 1 ELSE 0)
             + QuickMatches(a, i + 1, [avail EXCEPT ![a[i]] = numb - 1])

CalculateRatio(matches, length) ==
    IF length > 0 THEN Frac(2 * matches, length) ELSE Frac(1, 1)

QuickRatioUnlimited(a, b) ==
    CalculateRatio(QuickMatchesUnlimited(a, 1, [c \in Alphabet |-> CountOf(c, b)]),
                   Len(a) + Len(b))

QuickRatio(a, b) ==
    CalculateRatio(QuickMatches(a, 1, [c \in Alphabet |-> CountOf(c, b)]),
                   Len(a) + Len(b))

\* The comparison without the two added disjuncts.
TooSimilarGreaterOnly(similarity, max_similarity) ==
    FracGreater(similarity, max_similarity)

TooSimilar(similarity, max_similarity) ==
    \/ FracGreater(similarity, max_similarity)
    \/ FracIsOne(similarity)
    \/ FracIsZero(max_similarity)

ValueParts(value) == ReSplit(value) \o <<value>>

RECURSIVE UserAttributeSimilarity_loop(_, _, _, _)
UserAttributeSimilarity_loop(self, pw, u, i) ==
    IF i > Len(self.attrs.user_attributes) THEN Passes
    ELSE LET attribute_name == self.attrs.user_attributes[i]
             value == GetAttr(u, attribute_name)
         IN  IF value.kind # "str" \/ value.s = <<>>
             THEN UserAttributeSimilarity_loop(self, pw, u, i + 1)
             ELSE IF \E k \in 1..Len(ValueParts(value.s)) :
                        TooSimilar(QuickRatio(Lower(pw), Lower(ValueParts(value.s)[k])),
                                   self.attrs.max_similarity)
                  THEN ValidationError(
                          "The password is too similar to the %(verbose_name)s.",
                          "password_too_similar",
                          <<<<"verbose_name", VerboseName(attribute_name)>>>>)
                  ELSE UserAttributeSimilarity_loop(self, pw, u, i + 1)

UserAttributeSimilarity_validate(self, pw, u) ==
    IF u.kind = "None" THEN Passes
    ELSE UserAttributeSimilarity_loop(self, pw, u, 1)

UserAttributeSimilarity_get_help_text(self) ==
    <<"Your password can", "'", "t be too similar to your other personal information.">>

(***************************************************************************)
(* CommonPasswordValidator. The password list files are data outside the   *)
(* module: two small ones stand for them, with surrounding blanks to strip.*)
(***************************************************************************)
DEFAULT_PASSWORD_LIST_PATH == "common-passwords.txt.gz"

ReadLines(path) ==
    IF path = DEFAULT_PASSWORD_LIST_PATH
    THEN {<<"a", "b">>, <<"1", "1", " ">>}
    ELSE {<<" ", "b", "1">>}

CommonPasswordValidator(password_list_path) ==
    [klass |-> "CommonPasswordValidator",
     attrs |-> [passwords |-> {Strip(p) : p \in ReadLines(password_list_path)}]]

CommonPassword_validate(self, pw, u) ==
    IF Strip(Lower(pw)) \in self.attrs.passwords
    THEN ValidationError("This password is too common.",
                         "password_too_common", NoParams)
    ELSE Passes

CommonPassword_get_help_text(self) ==
    <<"Your password can", "'", "t be a commonly used password.">>

(***************************************************************************)
(* NumericPasswordValidator and the four AtLeastOne... validators          *)
(***************************************************************************)
NoAttrs == <<>>

NumericPasswordValidator == [klass |-> "NumericPasswordValidator", attrs |-> NoAttrs]

NumericPassword_validate(self, pw, u) ==
    IF StrIsDigit(pw)
    THEN ValidationError("This password is entirely numeric.",
                         "password_entirely_numeric", NoParams)
    ELSE Passes

NumericPassword_get_help_text(self) ==
    <<"Your password can", "'", "t be entirely numeric.">>

AtLeastOneDigitValidator == [klass |-> "AtLeastOneDigitValidator", attrs |-> NoAttrs]

AtLeastOneDigit_validate(self, pw, u) ==
    IF ~(\E i \in 1..Len(pw) : IsDigit(pw[i]))
    THEN ValidationError("This password does not contain a digit.",
                         "password_without_digit", NoParams)
    ELSE Passes

AtLeastOneDigit_get_help_text(self) ==
    <<"Your password must contain at least one digit.">>

AtLeastOnePunctuationCharacterValidator ==
    [klass |-> "AtLeastOnePunctuationCharacterValidator", attrs |-> NoAttrs]

IsSpaceOrPunctuation(c) == c = " " \/ c \in Punctuation

AtLeastOnePunctuationCharacter_validate(self, pw, u) ==
    IF ~(\E i \in 1..Len(pw) : IsSpaceOrPunctuation(pw[i]))
    THEN ValidationError("This password does not contain a punctuation character.",
                         "password_without_punctuation", NoParams)
    ELSE Passes

AtLeastOnePunctuationCharacter_get_help_text(self) ==
    <<"Your password must contain at least one punctuation character.">>

AtLeastOneUppercaseCharacterValidator ==
    [klass |-> "AtLeastOneUppercaseCharacterValidator", attrs |-> NoAttrs]

AtLeastOneUppercaseCharacter_validate(self, pw, u) ==
    IF ~(\E i \in 1..Len(pw) : IsUpper(pw[i]))
    THEN ValidationError("This password does not contain an uppercase character.",
                         "password_without_uppercase", NoParams)
    ELSE Passes

AtLeastOneUppercaseCharacter_get_help_text(self) ==
    <<"Your password must contain at least one uppercase character.">>

AtLeastOneLowercaseCharacterValidator ==
    [klass |-> "AtLeastOneLowercaseCharacterValidator", attrs |-> NoAttrs]

AtLeastOneLowercaseCharacter_validate(self, pw, u) ==
    IF ~(\E i \in 1..Len(pw) : IsLower(pw[i]))
    THEN ValidationError("This password does not contain a lowercase character.",
                         "password_without_lowercase", NoParams)
    ELSE Passes

AtLeastOneLowercaseCharacter_get_help_text(self) ==
    <<"Your password must contain at least one lowercase character.">>

(***************************************************************************)
(* NoRepeatsValidator                                                      *)
(***************************************************************************)
DefaultMaxRepeats == 2

NoRepeatsValidator(max_repeats) ==
    [klass |-> "NoRepeatsValidator", attrs |-> [max_repeats |-> max_repeats]]

CharsOf(s) == {s[i] : i \in 1..Len(s)}

\* A NoRepeats that counts the occurrences of a character wherever they are.
NoRepeats_validate_counting(self, pw, u) ==
    IF \E c \in CharsOf(pw) : CountOf(c, pw) > self.attrs.max_repeats
    THEN ValidationError(
            <<"This password contains a character repeated more than ",
              ToDigits(self.attrs.max_repeats), " times in a row.">>,
            "password_contains_repeats", NoParams)
    ELSE Passes

NoRepeats_validate(self, pw, u) ==
    IF \E c \in CharsOf(pw) : Contains(pw, Repeat(c, self.attrs.max_repeats + 1))
    THEN ValidationError(
            <<"This password contains a character repeated more than ",
              ToDigits(self.attrs.max_repeats), " times in a row.">>,
            "password_contains_repeats", NoParams)
    ELSE Passes

NoRepeats_get_help_text(self) ==
    <<"Your password can", "'", "t contain a character repeated more than ",
      ToDigits(self.attrs.max_repeats), " times in a row.">>

(***************************************************************************)
(* A validator from outside the module that implements password_changed(), *)
(* the kind password_changed() informs; the nine above do not.             *)
(***************************************************************************)
HistoryValidator == [klass |-> "HistoryValidator", attrs |-> NoAttrs]

History_get_help_text(self) == <<"Your password must be <new>.">>

HasPasswordChanged(v) == v.klass = "HistoryValidator"

(***************************************************************************)
(* Method dispatch on a validator instance.                                *)
(***************************************************************************)
Validate(v, pw, u) ==
    CASE v.klass = "MinimumLengthValidator" -> MinimumLength_validate(v, pw, u)
      [] v.klass = "UserAttributeSimilarityValidator" ->
            UserAttributeSimilarity_validate(v, pw, u)
      [] v.klass = "CommonPasswordValidator" -> CommonPassword_validate(v, pw, u)
      [] v.klass = "NumericPasswordValidator" -> NumericPassword_validate(v, pw, u)
      [] v.klass = "AtLeastOneDigitValidator" -> AtLeastOneDigit_validate(v, pw, u)
      [] v.klass = "AtLeastOnePunctuationCharacterValidator" ->
            AtLeastOnePunctuationCharacter_validate(v, pw, u)
      [] v.klass = "AtLeastOneUppercaseCharacterValidator" ->
            AtLeastOneUppercaseCharacter_validate(v, pw, u)
      [] v.klass = "AtLeastOneLowercaseCharacterValidator" ->
            AtLeastOneLowercaseCharacter_validate(v, pw, u)
      [] v.klass = "NoRepeatsValidator" -> NoRepeats_validate(v, pw, u)
      [] OTHER -> Passes

GetHelpText(v) ==
    CASE v.klass = "MinimumLengthValidator" -> MinimumLength_get_help_text(v)
      [] v.klass = "UserAttributeSimilarityValidator" ->
            UserAttributeSimilarity_get_help_text(v)
      [] v.klass = "CommonPasswordValidator" -> CommonPassword_get_help_text(v)
      [] v.klass = "NumericPasswordValidator" -> NumericPassword_get_help_text(v)
      [] v.klass = "AtLeastOneDigitValidator" -> AtLeastOneDigit_get_help_text(v)
      [] v.klass = "AtLeastOnePunctuationCharacterValidator" ->
            AtLeastOnePunctuationCharacter_get_help_text(v)
      [] v.klass = "AtLeastOneUppercaseCharacterValidator" ->
            AtLeastOneUppercaseCharacter_get_help_text(v)
      [] v.klass = "AtLeastOneLowercaseCharacterValidator" ->
            AtLeastOneLowercaseCharacter_get_help_text(v)
      [] v.klass = "NoRepeatsValidator" -> NoRepeats_get_help_text(v)
      [] OTHER -> History_get_help_text(v)

(***************************************************************************)
(* Registry: import_string, the constructor call, get_password_validators. *)
(***************************************************************************)
ModulePath == "metashare.accounts.django_password_validators."

KlassNames ==
    {"MinimumLengthValidator", "UserAttributeSimilarityValidator",
     "CommonPasswordValidator", "NumericPasswordValidator",
     "AtLeastOneDigitValidator", "AtLeastOnePunctuationCharacterValidator",
     "AtLeastOneUppercaseCharacterValidator",
     "AtLeastOneLowercaseCharacterValidator", "NoRepeatsValidator"}

HistoryPath == "myapp.validators.HistoryValidator"

ImportError == "ImportError"

\* import_string(dotted_path): the class at that path, or ImportError.
import_string(name) ==
    IF \E k \in KlassNames : name = ModulePath \o k
    THEN CHOOSE k \in KlassNames : name = ModulePath \o k
    ELSE IF name = HistoryPath THEN "HistoryValidator" ELSE ImportError

NoOptions == <<>>

\* validator.get('OPTIONS', {})
EntryOptions(entry) ==
    IF "OPTIONS" \in DOMAIN entry THEN entry.OPTIONS ELSE NoOptions

\* A keyword argument, or the parameter's default.
Opt(options, key, default) ==
    IF key \in DOMAIN options THEN options[key] ELSE default

\* A constructor call that drops the options, so every parameter takes its
\* default.
ConstructWithDefaults(klass, options) ==
    CASE klass = "MinimumLengthValidator" -> MinimumLengthValidator(DefaultMinLength)
      [] klass = "UserAttributeSimilarityValidator" ->
            UserAttributeSimilarityValidator(DEFAULT_USER_ATTRIBUTES, DefaultMaxSimilarity)
      [] klass = "CommonPasswordValidator" ->
            CommonPasswordValidator(DEFAULT_PASSWORD_LIST_PATH)
      [] klass = "NumericPasswordValidator" -> NumericPasswordValidator
      [] klass = "AtLeastOneDigitValidator" -> AtLeastOneDigitValidator
      [] klass = "AtLeastOnePunctuationCharacterValidator" ->
            AtLeastOnePunctuationCharacterValidator
      [] klass = "AtLeastOneUppercaseCharacterValidator" ->
            AtLeastOneUppercaseCharacterValidator
      [] klass = "AtLeastOneLowercaseCharacterValidator" ->
            AtLeastOneLowercaseCharacterValidator
      [] klass = "NoRepeatsValidator" -> NoRepeatsValidator(DefaultMaxRepeats)
      [] OTHER -> HistoryValidator

\* The constructor call of klass with the options as keyword arguments.
Construct(klass, options) ==
    CASE klass = "MinimumLengthValidator" ->
            MinimumLengthValidator(Opt(options, "min_length", DefaultMinLength))
      [] klass = "UserAttributeSimilarityValidator" ->
            UserAttributeSimilarityValidator(
                Opt(options, "user_attributes", DEFAULT_USER_ATTRIBUTES),
                Opt(options, "max_similarity", DefaultMaxSimilarity))
      [] klass = "CommonPasswordValidator" ->
            CommonPasswordValidator(
                Opt(options, "password_list_path", DEFAULT_PASSWORD_LIST_PATH))
      [] klass = "NumericPasswordValidator" -> NumericPasswordValidator
      [] klass = "AtLeastOneDigitValidator" -> AtLeastOneDigitValidator
      [] klass = "AtLeastOnePunctuationCharacterValidator" ->
            AtLeastOnePunctuationCharacterValidator
      [] klass = "AtLeastOneUppercaseCharacterValidator" ->
            AtLeastOneUppercaseCharacterValidator
      [] klass = "AtLeastOneLowercaseCharacterValidator" ->
            AtLeastOneLowercaseCharacterValidator
      [] klass = "NoRepeatsValidator" ->
            NoRepeatsValidator(Opt(options, "max_repeats", DefaultMaxRepeats))
      [] OTHER -> HistoryValidator

ImproperlyConfigured(name, resolved, constructed) ==
    [kind |-> "ImproperlyConfigured",
     message |-> <<"The module in NAME could not be imported: ", name,
                   ". Check your AUTH_PASSWORD_VALIDATORS setting.">>,
     value |-> <<>>, resolved |-> resolved, constructed |-> constructed]

Returned(value, resolved, constructed) ==
    [kind |-> "returned", message |-> <<>>, value |-> value,
     resolved |-> resolved, constructed |-> constructed]

\* The loop of get_password_validators from entry i on; resolved is the
\* sequence of names import_string has been called with, vs the validators
\* appended so far (each one a constructor call).
RECURSIVE get_password_validators_loop(_, _, _, _)
get_password_validators_loop(validator_config, i, vs, resolved) ==
    IF i > Len(validator_config) THEN Returned(vs, resolved, vs)
    ELSE LET entry == validator_config[i]
             klass == import_string(entry.NAME)
         IN  IF klass = ImportError
             THEN ImproperlyConfigured(entry.NAME, Append(resolved, entry.NAME), vs)
             ELSE get_password_validators_loop(
                      validator_config, i + 1,
                      Append(vs, Construct(klass, EntryOptions(entry))),
                      Append(resolved, entry.NAME))

\* A get_password_validators that leaves out the entries it cannot resolve.
RECURSIVE get_password_validators_skipping_loop(_, _, _, _)
get_password_validators_skipping_loop(validator_config, i, vs, resolved) ==
    IF i > Len(validator_config) THEN Returned(vs, resolved, vs)
    ELSE LET entry == validator_config[i]
             klass == import_string(entry.NAME)
         IN  get_password_validators_skipping_loop(
                 validator_config, i + 1,
                 IF klass = ImportError THEN vs
                 ELSE Append(vs, Construct(klass, EntryOptions(entry))),
                 Append(resolved, entry.NAME))

get_password_validators_skipping(validator_config) ==
    get_password_validators_skipping_loop(validator_config, 1, <<>>, <<>>)

get_password_validators(validator_config) ==
    get_password_validators_loop(validator_config, 1, <<>>, <<>>)

DEFAULT_AUTH_PASSWORD_VALIDATORS ==
    << [NAME |-> ModulePath \o "UserAttributeSimilarityValidator",
        OPTIONS |-> [max_similarity |-> Frac(1, 2)]],
       [NAME |-> ModulePath \o "MinimumLengthValidator",
        OPTIONS |-> [min_length |-> 10]],
       [NAME |-> ModulePath \o "CommonPasswordValidator"],
       [NAME |-> ModulePath \o "NumericPasswordValidator"],
       [NAME |-> ModulePath \o "AtLeastOneDigitValidator"],
       [NAME |-> ModulePath \o "AtLeastOnePunctuationCharacterValidator"],
       [NAME |-> ModulePath \o "AtLeastOneUppercaseCharacterValidator"],
       [NAME |-> ModulePath \o "AtLeastOneLowercaseCharacterValidator"],
       [NAME |-> ModulePath \o "NoRepeatsValidator",
        OPTIONS |-> [max_repeats |-> 2]] >>

\* settings.AUTH_PASSWORD_VALIDATORS when set.
Unset == [set |-> FALSE, value |-> <<>>]
SetTo(cfg) == [set |-> TRUE, value |-> cfg]

\* getattr(settings, 'AUTH_PASSWORD_VALIDATORS', DEFAULT_AUTH_PASSWORD_VALIDATORS)
EffectiveConfig(s) == IF s.set THEN s.value ELSE DEFAULT_AUTH_PASSWORD_VALIDATORS

\* The lru_cache of the zero-argument accessor: empty, or the one result.
EmptyCache == [filled |-> FALSE, value |-> <<>>]
Filled(vs) == [filled |-> TRUE, value |-> vs]

\* The accessor without its lru_cache: every call runs the function.
get_default_password_validators_uncached(c, s) ==
    LET got == get_password_validators(EffectiveConfig(s))
    IN  [hit |-> FALSE, got |-> got,
         cache |-> IF got.kind = "returned" THEN Filled(got.value) ELSE c]

\* get_default_password_validators() under @lru_cache(maxsize=None): a hit
\* returns the cached list; a miss runs the function and caches what it
\* returns, and nothing when it raises.
get_default_password_validators(c, s) ==
    IF c.filled
    THEN [hit |-> TRUE, got |-> Returned(c.value, <<>>, <<>>), cache |-> c]
    ELSE LET got == get_password_validators(EffectiveConfig(s))
         IN  [hit |-> FALSE, got |-> got,
              cache |-> IF got.kind = "returned" THEN Filled(got.value) ELSE c]

(***************************************************************************)
(* Orchestrator: validate_password and password_changed.                   *)
(***************************************************************************)
Call(i, pw, u) == [validator |-> i, password |-> pw, user |-> u]

\* What a call of the public API did: it returned value, or it raised error.
ReturnedValue(value) == [kind |-> "returned", value |-> value]
Raised(error) == [kind |-> "raised", error |-> error]
None == "None"

\* ValidationError(errors): the aggregate wrapping a list of ValidationErrors.
AggregateValidationError(errors) ==
    [kind |-> "ValidationError", error_list |-> errors]

\* The for loop of validate_password from index i on: calls are the
\* validate() invocations made, errors the ValidationErrors caught.
RECURSIVE validate_password_loop(_, _, _, _, _, _)
validate_password_loop(vs, pw, u, i, calls, errors) ==
    IF i > Len(vs)
    THEN [calls |-> calls,
          result |-> IF errors # <<>> THEN Raised(AggregateValidationError(errors))
                     ELSE ReturnedValue(None)]
    ELSE LET r == Validate(vs[i], pw, u)
         IN  validate_password_loop(
                 vs, pw, u, i + 1, Append(calls, Call(i, pw, u)),
                 IF r.kind = "ValidationError" THEN Append(errors, r) ELSE errors)

\* A validate_password that stops at the first failing validator.
RECURSIVE validate_password_first_failure_loop(_, _, _, _, _)
validate_password_first_failure_loop(vs, pw, u, i, calls) ==
    IF i > Len(vs) THEN [calls |-> calls, result |-> ReturnedValue(None)]
    ELSE LET r == Validate(vs[i], pw, u)
         IN  IF r.kind = "ValidationError"
             THEN [calls |-> Append(calls, Call(i, pw, u)),
                   result |-> Raised(AggregateValidationError(<<r>>))]
             ELSE validate_password_first_failure_loop(
                      vs, pw, u, i + 1, Append(calls, Call(i, pw, u)))

validate_password_first_failure(pw, u, password_validators) ==
    validate_password_first_failure_loop(password_validators, pw, u, 1, <<>>)

\* A validate_password that puts each caught error in front of the others.
RECURSIVE validate_password_prepending_loop(_, _, _, _, _, _)
validate_password_prepending_loop(vs, pw, u, i, calls, errors) ==
    IF i > Len(vs)
    THEN [calls |-> calls,
          result |-> IF errors # <<>> THEN Raised(AggregateValidationError(errors))
                     ELSE ReturnedValue(None)]
    ELSE LET r == Validate(vs[i], pw, u)
         IN  validate_password_prepending_loop(
                 vs, pw, u, i + 1, Append(calls, Call(i, pw, u)),
                 IF r.kind = "ValidationError" THEN <<r>> \o errors ELSE errors)

validate_password_prepending(pw, u, password_validators) ==
    validate_password_prepending_loop(password_validators, pw, u, 1, <<>>, <<>>)

validate_password(pw, u, password_validators) ==
    validate_password_loop(password_validators, pw, u, 1, <<>>, <<>>)

\* The for loop of password_changed: hooks are the password_changed()
\* invocations made on validators; the others get the no-op lambda.
RECURSIVE password_changed_loop(_, _, _, _, _)
password_changed_loop(vs, pw, u, i, hooks) ==
    IF i > Len(vs) THEN [hooks |-> hooks, result |-> ReturnedValue(None)]
    ELSE password_changed_loop(
             vs, pw, u, i + 1,
             IF HasPasswordChanged(vs[i]) THEN Append(hooks, Call(i, pw, u))
             ELSE hooks)

\* A password_changed that looks the hook up without a default.
RECURSIVE password_changed_no_default_loop(_, _, _, _, _)
password_changed_no_default_loop(vs, pw, u, i, hooks) ==
    IF i > Len(vs) THEN [hooks |-> hooks, result |-> ReturnedValue(None)]
    ELSE IF HasPasswordChanged(vs[i])
         THEN password_changed_no_default_loop(
                  vs, pw, u, i + 1, Append(hooks, Call(i, pw, u)))
         ELSE [hooks |-> hooks, result |-> Raised("AttributeError")]

password_changed_no_default(pw, u, password_validators) ==
    password_changed_no_default_loop(password_validators, pw, u, 1, <<>>)

password_changed(pw, u, password_validators) ==
    password_changed_loop(password_validators, pw, u, 1, <<>>)

(***************************************************************************)
(* Help-text aggregator.                                                   *)
(***************************************************************************)
RECURSIVE password_validators_help_texts_loop(_, _, _)
password_validators_help_texts_loop(vs, i, help_texts) ==
    IF i > Len(vs) THEN help_texts
    ELSE password_validators_help_texts_loop(
             vs, i + 1, Append(help_texts, GetHelpText(vs[i])))

\* A password_validators_help_texts that keeps each distinct text once.
RECURSIVE password_validators_help_texts_distinct_loop(_, _, _)
password_validators_help_texts_distinct_loop(vs, i, help_texts) ==
    IF i > Len(vs) THEN help_texts
    ELSE password_validators_help_texts_distinct_loop(
             vs, i + 1,
             IF \E k \in 1..Len(help_texts) : help_texts[k] = GetHelpText(vs[i])
             THEN help_texts
             ELSE Append(help_texts, GetHelpText(vs[i])))

password_validators_help_texts_distinct(password_validators) ==
    password_validators_help_texts_distinct_loop(password_validators, 1, <<>>)

password_validators_help_texts(password_validators) ==
    password_validators_help_texts_loop(password_validators, 1, <<>>)

\* conditional_escape of one piece of text (a piece is a run of ordinary
\* characters or one HTML-significant character).
EscapePiece(p) ==
    CASE p = "'" -> "&#39;"
      [] p = "<" -> "&lt;"
      [] p = ">" -> "&gt;"
      [] p = "&" -> "&amp;"
      [] OTHER -> p

Escape(text) == [i \in 1..Len(text) |-> EscapePiece(text[i])]

RECURSIVE Join(_)
Join(texts) == IF texts = <<>> THEN <<>> ELSE Head(texts) \o Join(Tail(texts))

\* format_html_join('', '<li>{}</li>', ...)
HelpItems(help_texts) ==
    Join([i \in 1..Len(help_texts) |->
            <<"<li>">> \o Escape(help_texts[i]) \o <<"</li>">>])

\* An HTML string is the sequence of its pieces; '' is the empty sequence.
password_validators_help_text_html(password_validators) ==
    LET help_texts == password_validators_help_texts(password_validators)
    IN  IF help_texts = <<>> THEN <<>>
        ELSE <<"<ul>">> \o HelpItems(help_texts) \o <<"</ul>">>

(***************************************************************************)
(* Inputs.                                                                 *)
(***************************************************************************)
MissingPath == "myapp.validators.Missing"

Entries ==
    { [NAME |-> ModulePath \o "MinimumLengthValidator", OPTIONS |-> [min_length |-> 2]],
      [NAME |-> ModulePath \o "MinimumLengthValidator"],
      [NAME |-> ModulePath \o "UserAttributeSimilarityValidator",
       OPTIONS |-> [user_attributes |-> <<"username">>, max_similarity |-> Frac(0, 1)]],
      [NAME |-> ModulePath \o "CommonPasswordValidator",
       OPTIONS |-> [password_list_path |-> "custom-passwords.txt"]],
      [NAME |-> ModulePath \o "NoRepeatsValidator", OPTIONS |-> [max_repeats |-> 1]],
      [NAME |-> HistoryPath],
      [NAME |-> MissingPath] }

Configs == Strings(Entries, MaxConfigLen)

ApiPasswords == {<<>>, <<"a", "a", "1">>, <<"B", "1", " ">>}

ApiUsers == {NoUser, [kind |-> "user", username |-> Str(<<"a", "b">>)]}

NotLoaded == [loaded |-> FALSE, value |-> <<>>]
Loaded(vs) == [loaded |-> TRUE, value |-> vs]

Pending == [kind |-> "pending"]

NoCall == [op |-> "none"]

(***************************************************************************)
(* Spec: a configuration is resolved by get_password_validators and the    *)
(* public functions are called with the resulting list.                    *)
(***************************************************************************)
RegistryIdle ==
    /\ settings = Unset /\ cache = EmptyCache /\ builds = 0
    /\ accessed = FALSE /\ clears = 0

StrategyIdle ==
    /\ password = <<>> /\ user = NoUser /\ validator = NumericPasswordValidator
    /\ outcome = Pending

Init ==
    /\ config \in Configs
    /\ validators = NotLoaded
    /\ last = NoCall
    /\ RegistryIdle
    /\ StrategyIdle

GetPasswordValidators ==
    LET got == get_password_validators(config)
    IN  /\ validators' = IF got.kind = "returned" THEN Loaded(got.value) ELSE validators
        /\ last' = [op |-> "get_password_validators", got |-> got]
        /\ UNCHANGED <<settings, cache, builds, accessed, clears, config,
                       password, user, validator, outcome>>

ValidatePassword ==
    /\ validators.loaded
    /\ \E pw \in ApiPasswords, u \in ApiUsers :
          last' = [op |-> "validate_password", password |-> pw, user |-> u,
                   out |-> validate_password(pw, u, validators.value)]
    /\ UNCHANGED <<settings, cache, builds, accessed, clears, config, validators,
                   password, user, validator, outcome>>

PasswordChanged ==
    /\ validators.loaded
    /\ \E pw \in ApiPasswords, u \in ApiUsers :
          last' = [op |-> "password_changed", password |-> pw, user |-> u,
                   out |-> password_changed(pw, u, validators.value)]
    /\ UNCHANGED <<settings, cache, builds, accessed, clears, config, validators,
                   password, user, validator, outcome>>

HelpTexts ==
    /\ validators.loaded
    /\ last' = [op |-> "password_validators_help_texts",
                out |-> password_validators_help_texts(validators.value)]
    /\ UNCHANGED <<settings, cache, builds, accessed, clears, config, validators,
                   password, user, validator, outcome>>

HelpTextHtml ==
    /\ validators.loaded
    /\ last' = [op |-> "password_validators_help_text_html",
                out |-> password_validators_help_text_html(validators.value)]
    /\ UNCHANGED <<settings, cache, builds, accessed, clears, config, validators,
                   password, user, validator, outcome>>

Next ==
    \/ GetPasswordValidators
    \/ ValidatePassword
    \/ PasswordChanged
    \/ HelpTexts
    \/ HelpTextHtml

Spec == Init /\ [][Next]_vars

(***************************************************************************)
(* SpecDefault: the public functions are called without a validator list,  *)
(* so each goes through get_default_password_validators(); the setting can *)
(* change between calls and the cache can be cleared.                      *)
(***************************************************************************)
SettingsChoices ==
    { Unset,
      SetTo(<<>>),
      SetTo(<<[NAME |-> ModulePath \o "NoRepeatsValidator"], [NAME |-> HistoryPath]>>),
      SetTo(<<[NAME |-> ModulePath \o "MinimumLengthValidator",
               OPTIONS |-> [min_length |-> 2]]>>),
      SetTo(<<[NAME |-> ModulePath \o "AtLeastOneDigitValidator"],
              [NAME |-> MissingPath]>>) }

OrchestratorIdle == config = <<>> /\ validators = NotLoaded

InitDefault ==
    /\ settings \in SettingsChoices
    /\ cache = EmptyCache
    /\ builds = 0
    /\ accessed = FALSE
    /\ clears = 0
    /\ last = NoCall
    /\ OrchestratorIdle
    /\ StrategyIdle

\* The call of the accessor that starts every call without a validator list.
Accessor == get_default_password_validators(cache, settings)

\* The part every call without a validator list shares: the accessor has
\* run as d, and out is the call's own result when the accessor returned
\* (its exception propagates otherwise).
DefaultCall(op, d, out) ==
    /\ d.hit \/ builds < MaxBuilds
    /\ cache' = d.cache
    /\ builds' = IF d.hit THEN builds ELSE builds + 1
    /\ accessed' = TRUE
    /\ last' = [op |-> op, settings |-> settings, hit |-> d.hit, got |-> d.got,
                out |-> IF d.got.kind = "returned" THEN out ELSE <<>>]
    /\ UNCHANGED <<settings, clears, config, validators,
                   password, user, validator, outcome>>

GetDefault ==
    DefaultCall("get_default_password_validators", Accessor, Accessor.got.value)

ValidateDefault ==
    \E pw \in ApiPasswords, u \in ApiUsers :
        DefaultCall("validate_password", Accessor,
                    [password |-> pw, user |-> u,
                     result |-> validate_password(pw, u, Accessor.got.value)])

PasswordChangedDefault ==
    \E pw \in ApiPasswords, u \in ApiUsers :
        DefaultCall("password_changed", Accessor,
                    [password |-> pw, user |-> u,
                     result |-> password_changed(pw, u, Accessor.got.value)])

HelpTextsDefault ==
    DefaultCall("password_validators_help_texts", Accessor,
                password_validators_help_texts(Accessor.got.value))

HelpTextHtmlDefault ==
    DefaultCall("password_validators_help_text_html", Accessor,
                password_validators_help_text_html(Accessor.got.value))

\* The process-wide configuration value is given another value.
ChangeSettings ==
    /\ \E s \in SettingsChoices : s # settings /\ settings' = s
    /\ UNCHANGED <<cache, builds, accessed, clears, config, validators, last,
                   password, user, validator, outcome>>

\* get_default_password_validators.cache_clear()
CacheClear ==
    /\ clears < MaxClears
    /\ cache' = EmptyCache
    /\ accessed' = FALSE
    /\ clears' = clears + 1
    /\ last' = [op |-> "cache_clear"]
    /\ UNCHANGED <<settings, builds, config, validators,
                   password, user, validator, outcome>>

NextDefault ==
    \/ GetDefault
    \/ ValidateDefault
    \/ PasswordChangedDefault
    \/ HelpTextsDefault
    \/ HelpTextHtmlDefault
    \/ ChangeSettings
    \/ CacheClear

SpecDefault == InitDefault /\ [][NextDefault]_vars

(***************************************************************************)
(* SpecSimilarity: UserAttributeSimilarityValidator.validate as a function *)
(* of the password, the user and the validator's options.                  *)
(***************************************************************************)
SimilarityChars == {"a", "b", "A", "."}

SimilarityValues ==
    {NoneValue, IntValue} \cup {Str(s) : s \in Strings(SimilarityChars, MaxValueLen)}

SimilarityUsers ==
    {NoUser}
    \cup {[kind |-> "user", username |-> v] : v \in SimilarityValues}
    \cup {[kind |-> "user", username |-> NoneValue, email |-> Str(<<"a", ".", "B">>)],
          [kind |-> "user", username |-> Str(<<"b">>), e |-> Str(<<"a">>)]}

SimilarityValidators ==
    {UserAttributeSimilarityValidator(attributes, m) :
        attributes \in {DEFAULT_USER_ATTRIBUTES, <<"username">>,
                        <<"email", "username">>, <<>>},
        m \in {Frac(0, 1), DefaultMaxSimilarity, Frac(1, 1)}}

RegistryAndOrchestratorIdle == RegistryIdle /\ OrchestratorIdle /\ last = NoCall

InitSimilarity ==
    /\ password \in Strings(SimilarityChars, MaxPwLen)
    /\ user \in SimilarityUsers
    /\ validator \in SimilarityValidators
    /\ outcome = Pending
    /\ RegistryAndOrchestratorIdle

SimilarityValidate ==
    /\ outcome = Pending
    /\ outcome' = UserAttributeSimilarity_validate(validator, password, user)
    /\ UNCHANGED <<settings, cache, builds, accessed, clears, config, validators,
                   last, password, user, validator>>

NextSimilarity == SimilarityValidate

SpecSimilarity == InitSimilarity /\ [][NextSimilarity]_vars

(***************************************************************************)
(* SpecRepeats: NoRepeatsValidator.validate as a function of the password  *)
(* and max_repeats.                                                        *)
(***************************************************************************)
RepeatsChars == {"a", "b"}

InitRepeats ==
    /\ password \in Strings(RepeatsChars, MaxRepLen)
    /\ user = NoUser
    /\ validator \in {NoRepeatsValidator(n) : n \in 1..MaxRepeatsBound}
    /\ outcome = Pending
    /\ RegistryAndOrchestratorIdle

RepeatsValidate ==
    /\ outcome = Pending
    /\ outcome' = NoRepeats_validate(validator, password, user)
    /\ UNCHANGED <<settings, cache, builds, accessed, clears, config, validators,
                   last, password, user, validator>>

NextRepeats == RepeatsValidate

SpecRepeats == InitRepeats /\ [][NextRepeats]_vars

(***************************************************************************)
(* Properties of the orchestrator and the registry, under Spec.            *)
(***************************************************************************)
Fails(v, pw, u) == Validate(v, pw, u).kind = "ValidationError"

IsValidationError(r) == r.kind = "ValidationError"

ValidateCalled == last.op = "validate_password"

\* C1: one call of validate_password invokes validate(password, user) on
\* every validator of the sequence exactly once, in sequence order, also on
\* the validators that come after one that failed.
C1_EveryValidatorInvokedOnceInOrder ==
    ValidateCalled =>
        /\ Len(last.out.calls) = Len(validators.value)
        /\ \A i \in 1..Len(validators.value) :
              last.out.calls[i] = Call(i, last.password, last.user)

\* C1 witness: [A fails, B passes, C fails] and all three were invoked.
C1_Witness ==
    /\ ValidateCalled
    /\ Len(validators.value) = 3
    /\ Fails(validators.value[1], last.password, last.user)
    /\ ~Fails(validators.value[2], last.password, last.user)
    /\ Fails(validators.value[3], last.password, last.user)
    /\ Len(last.out.calls) = 3

\* C2: validate_password fails with an aggregate error iff at least one
\* validator fails; the aggregate wraps exactly the ValidationErrors of the
\* failing validators, in validator order, each unchanged; when none fails
\* (the empty sequence included) it returns normally with no value.
C2_AggregateIffSomeValidatorFails ==
    ValidateCalled =>
        LET vs == validators.value
            results == [i \in 1..Len(vs) |-> Validate(vs[i], last.password, last.user)]
            failures == SelectSeq(results, IsValidationError)
        IN  /\ last.out.result.kind = "raised"
                <=> \E i \in 1..Len(vs) : Fails(vs[i], last.password, last.user)
            /\ last.out.result.kind = "raised" =>
                  /\ last.out.result.error.kind = "ValidationError"
                  /\ last.out.result.error.error_list = failures
            /\ last.out.result.kind # "raised" => last.out.result = ReturnedValue(None)

\* C2 witness: two validators with different errors fail around one that
\* passes, and the aggregate has been raised.
C2_Witness ==
    /\ ValidateCalled
    /\ Len(validators.value) = 3
    /\ Fails(validators.value[1], last.password, last.user)
    /\ ~Fails(validators.value[2], last.password, last.user)
    /\ Fails(validators.value[3], last.password, last.user)
    /\ Validate(validators.value[1], last.password, last.user)
          # Validate(validators.value[3], last.password, last.user)
    /\ last.out.result.kind = "raised"
    /\ Len(last.out.result.error.error_list) = 2

Unresolvable(cfg) == {i \in 1..Len(cfg) : import_string(cfg[i].NAME) = ImportError}

FirstUnresolvable(cfg) ==
    CHOOSE i \in Unresolvable(cfg) : \A j \in Unresolvable(cfg) : i <= j

GetPasswordValidatorsCalled == last.op = "get_password_validators"

\* C4: when some entry's name cannot be resolved, get_password_validators
\* fails with ImproperlyConfigured reporting that name; the name is resolved
\* once, no validator list is returned, and no later entry is resolved or
\* constructed.
C4_UnresolvableNameIsConfigurationError ==
    (GetPasswordValidatorsCalled /\ Unresolvable(config) # {}) =>
        LET k == FirstUnresolvable(config)
        IN  /\ last.got.kind = "ImproperlyConfigured"
            /\ last.got.message[2] = config[k].NAME
            /\ last.got.value = <<>>
            /\ ~validators.loaded
            /\ last.got.resolved = [i \in 1..k |-> config[i].NAME]
            /\ Len(last.got.constructed) = k - 1

\* C4 witness: the offending entry has a resolvable entry before it and
\* further entries after it.
C4_Witness ==
    /\ GetPasswordValidatorsCalled
    /\ Unresolvable(config) # {}
    /\ FirstUnresolvable(config) = 2
    /\ Len(config) = 3
    /\ last.got.kind = "ImproperlyConfigured"

\* The default of each constructor parameter a validator keeps as an
\* attribute.
ParameterDefaults(klass) ==
    CASE klass = "MinimumLengthValidator" -> [min_length |-> DefaultMinLength]
      [] klass = "UserAttributeSimilarityValidator" ->
            [user_attributes |-> DEFAULT_USER_ATTRIBUTES,
             max_similarity |-> DefaultMaxSimilarity]
      [] klass = "NoRepeatsValidator" -> [max_repeats |-> DefaultMaxRepeats]
      [] OTHER -> <<>>

\* Reading option key back from validator v gives value.
ReadsBack(v, key, value) == key \in DOMAIN v.attrs /\ v.attrs[key] = value

InstanceOfNamed(v, entry) == v.klass = import_string(entry.NAME)

\* C5 as stated: the list has the length of config, its i-th validator is an
\* instance of the i-th named implementation, and every option of every
\* entry reads back from its validator, after any calls.
C5_OptionsReadBack ==
    validators.loaded =>
        /\ Len(validators.value) = Len(config)
        /\ \A i \in 1..Len(config) :
              /\ InstanceOfNamed(validators.value[i], config[i])
              /\ \A key \in DOMAIN EntryOptions(config[i]) :
                    ReadsBack(validators.value[i], key, EntryOptions(config[i])[key])

KeepsOptions(v) == v.klass # "CommonPasswordValidator"

\* C5 amended: the same, where the options read back from the validators
\* that keep them as attributes (min_length, user_attributes,
\* max_similarity, max_repeats; the parameter's default when the entry does
\* not give it); a CommonPasswordValidator keeps the password set loaded
\* from its password_list_path, not the path.
C5_OptionsReadBackWhereKept ==
    validators.loaded =>
        /\ Len(validators.value) = Len(config)
        /\ \A i \in 1..Len(config) :
              LET v == validators.value[i]
                  options == EntryOptions(config[i])
              IN  /\ InstanceOfNamed(v, config[i])
                  /\ KeepsOptions(v) =>
                        /\ \A key \in DOMAIN options : ReadsBack(v, key, options[key])
                        /\ \A key \in DOMAIN ParameterDefaults(v.klass) \ DOMAIN options :
                              ReadsBack(v, key, ParameterDefaults(v.klass)[key])
                  /\ ~KeepsOptions(v) =>
                        /\ DOMAIN v.attrs = {"passwords"}
                        /\ v.attrs.passwords =
                              {Strip(line) : line \in ReadLines(
                                  Opt(options, "password_list_path",
                                      DEFAULT_PASSWORD_LIST_PATH))}

\* C5 witness: an entry with options and one without have been constructed
\* and the validators have since been used.
C5_Witness ==
    /\ validators.loaded
    /\ ValidateCalled
    /\ Len(config) >= 2
    /\ DOMAIN EntryOptions(config[1]) # {}
    /\ KeepsOptions(validators.value[1])
    /\ "OPTIONS" \notin DOMAIN config[2]
    /\ KeepsOptions(validators.value[2])
    /\ DOMAIN ParameterDefaults(validators.value[2].klass) # {}

PasswordChangedCalled == last.op = "password_changed"

\* C6: password_changed invokes the hook with (password, user) exactly once
\* on each validator that defines it, in sequence order, skips the others,
\* and does not fail because a hook is absent.
C6_HooksInvokedAbsentSkipped ==
    PasswordChangedCalled =>
        LET vs == validators.value
            all == [i \in 1..Len(vs) |-> Call(i, last.password, last.user)]
            Defines(c) == vs[c.validator].klass = "HistoryValidator"
        IN  /\ last.out.hooks = SelectSeq(all, Defines)
            /\ last.out.result = ReturnedValue(None)

\* C6 witness: a validator without the hook stands between two with it.
C6_Witness ==
    /\ PasswordChangedCalled
    /\ Len(validators.value) = 3
    /\ HasPasswordChanged(validators.value[1])
    /\ ~HasPasswordChanged(validators.value[2])
    /\ HasPasswordChanged(validators.value[3])
    /\ Len(last.out.hooks) = 2

\* C7: password_validators_help_texts returns one help text per validator,
\* the i-th that of the i-th validator, duplicates kept; and
\* password_validators_help_text_html returns '' exactly when the validator
\* sequence is empty.
C7_HelpTextsOnePerValidator ==
    /\ last.op = "password_validators_help_texts" =>
          /\ Len(last.out) = Len(validators.value)
          /\ \A i \in 1..Len(validators.value) :
                last.out[i] = GetHelpText(validators.value[i])
    /\ last.op = "password_validators_help_text_html" =>
          (last.out = <<>> <=> validators.value = <<>>)

\* C7 witness: the same validator twice, and its help text twice.
C7_Witness ==
    /\ last.op = "password_validators_help_texts"
    /\ Len(validators.value) >= 2
    /\ validators.value[1] = validators.value[2]
    /\ Len(last.out) >= 2
    /\ last.out[1] = last.out[2]

(***************************************************************************)
(* Properties of the memoized default set, under SpecDefault.              *)
(***************************************************************************)
\* A step that is a call going through the accessor (the other steps change
\* the setting or clear the cache).
AccessorCallStep == settings' = settings /\ clears' = clears

\* C3 as stated: once the accessor has been called, no later call builds
\* again, whatever the setting has become; only a cache clear makes it build
\* again.
C3_BuildsAtMostOnce ==
    [][(accessed /\ clears' = clears) => builds' = builds]_vars

\* C3 amended: the first call that returns builds the set from the setting
\* (from the nine-entry default list when it is unset) and caches it; from
\* then on every call returns that same set without resolving or
\* constructing anything, also after the setting has changed, until the
\* cache is cleared. A call that fails with ImproperlyConfigured caches
\* nothing, so the next call builds again.
C3_BuildsAtMostOnceAfterReturning ==
    [][ /\ (cache.filled /\ clears' = clears) =>
              /\ cache' = cache
              /\ builds' = builds
              /\ AccessorCallStep =>
                    /\ last'.hit
                    /\ last'.got.kind = "returned"
                    /\ last'.got.value = cache.value
                    /\ last'.got.resolved = <<>>
                    /\ last'.got.constructed = <<>>
        /\ (~cache.filled /\ cache'.filled) =>
              /\ builds' = builds + 1
              /\ last'.got.kind = "returned"
              /\ cache'.value = last'.got.value
              /\ Len(cache'.value) = Len(EffectiveConfig(settings))
              /\ \A i \in 1..Len(cache'.value) :
                    InstanceOfNamed(cache'.value[i], EffectiveConfig(settings)[i])
              /\ ~settings.set => Len(cache'.value) = 9
        /\ (~cache.filled /\ ~cache'.filled /\ AccessorCallStep) =>
              /\ builds' = builds + 1
              /\ last'.got.kind = "ImproperlyConfigured"
      ]_vars

\* C3 witness: a call has returned the cached set although the setting in
\* force at that call would build another one.
C3_Witness ==
    /\ last.op \in {"get_default_password_validators", "validate_password",
                    "password_changed", "password_validators_help_texts",
                    "password_validators_help_text_html"}
    /\ last.hit
    /\ cache.filled
    /\ last.got.value = cache.value
    /\ get_password_validators(EffectiveConfig(last.settings)).value # cache.value

(***************************************************************************)
(* Properties of UserAttributeSimilarityValidator, under SpecSimilarity.   *)
(***************************************************************************)
Validated == outcome # Pending

TooSimilarRaised ==
    outcome.kind = "ValidationError" /\ outcome.code = "password_too_similar"

CheckedValues ==
    IF user.kind = "None" THEN {}
    ELSE {GetAttr(user, validator.attrs.user_attributes[i]).s :
            i \in {j \in 1..Len(validator.attrs.user_attributes) :
                     LET value == GetAttr(user, validator.attrs.user_attributes[j])
                     IN  value.kind = "str" /\ value.s # <<>>}}

MaxSimilarityIsOne ==
    validator.attrs.max_similarity.num = validator.attrs.max_similarity.den

PartsOf(value) == {ValueParts(value)[k] : k \in 1..Len(ValueParts(value))}

C9_FailsOnlyOnExactMatch ==
    (Validated /\ MaxSimilarityIsOne /\ TooSimilarRaised) =>
        \E value \in CheckedValues : Lower(password) = Lower(value)

SameCharacters(a, b) == \A c \in Alphabet : CountOf(c, a) = CountOf(c, b)

\* C9 amended: with max_similarity=1, validate fails exactly when the
\* case-folded password has the same characters with the same multiplicities
\* (in any order) as the case-folded full value of a checked attribute or as
\* one of the parts that splitting the value on runs of non-word characters
\* gives.
C9_FailsOnlyOnSameCharacters ==
    (Validated /\ MaxSimilarityIsOne) =>
        (TooSimilarRaised <=>
            \E value \in CheckedValues : \E part \in PartsOf(value) :
                SameCharacters(Lower(password), Lower(part)))

\* C9 witness: validate failed on a password that is another ordering, in
\* another case, of the attribute value.
C9_Witness ==
    /\ Validated
    /\ MaxSimilarityIsOne
    /\ TooSimilarRaised
    /\ CheckedValues # {}
    /\ \A value \in CheckedValues :
          /\ Lower(password) # Lower(value)
          /\ password # value
          /\ SameCharacters(Lower(password), Lower(value))

(***************************************************************************)
(* Properties of NoRepeatsValidator, under SpecRepeats.                    *)
(***************************************************************************)
\* Some character stands n times in a row somewhere in s.
HasRun(s, n) ==
    \E i \in 1..(Len(s) - n + 1) : \A j \in i..(i + n - 1) : s[j] = s[i]

ContainsRepeatsRaised ==
    outcome.kind = "ValidationError" /\ outcome.code = "password_contains_repeats"

\* C10: for max_repeats >= 1, NoRepeats fails with password_contains_repeats
\* iff some character occurs more than max_repeats times consecutively;
\* occurrences that are not consecutive never cause a failure: with
\* max_repeats=2 it fails on "aaab" and passes on "aabaa".
C10_FailsIffRunLongerThanMaxRepeats ==
    Validated =>
        /\ ContainsRepeatsRaised <=> HasRun(password, validator.attrs.max_repeats + 1)
        /\ ~ContainsRepeatsRaised => outcome = Passes
        /\ (validator.attrs.max_repeats = 2 /\ password = <<"a", "a", "a", "b">>)
              => ContainsRepeatsRaised
        /\ (validator.attrs.max_repeats = 2 /\ password = <<"a", "a", "b", "a", "a">>)
              => outcome = Passes

\* C10 witness: "aabaa" has four occurrences of a, never more than two in a
\* row, and passed with max_repeats=2.
C10_Witness ==
    /\ Validated
    /\ validator.attrs.max_repeats = 2
    /\ password = <<"a", "a", "b", "a", "a">>
    /\ outcome = Passes

====
